---- MODULE Spec2Model ----
(***************************************************************************)
(* State-machine model of the listener component                           *)
(* src/components/Listner.jsx: the connection lifecycle, the reconnection  *)
(* engine, the heartbeat presence check and the audio-track handling.      *)
(*                                                                         *)
(* The component is a React function component.  Every callback the code   *)
(* hands to the transport client, to setInterval or to setTimeout is a     *)
(* closure over the state values of the render that created it; the model  *)
(* keeps those captured values explicitly (eff, heartbeatIntervalRef,      *)
(* attempts, queries, subs) next to the live React state, because the      *)
(* guards in the code read the captured values, not the live ones.         *)
(* Every await in the code is a step boundary: the part of a handler up to *)
(* an await is one action, its continuation another.                       *)
(***************************************************************************)
EXTENDS Integers, Sequences, FiniteSets, TLC

VARIABLES
    \* React state (useState, lines 31-55)
    AgoraRTC, isSDKLoading, sdkError, client,
    isConnected, isLive, isPlaying, isReconnecting, reconnectCount,
    wasPlayingBeforeDisconnect, connectionError, remoteAudioTrack,
    broadcasterOnline, listenerCount, isMuted, volume,
    \* refs (useRef, lines 69-73)
    isComponentMountedRef, hasShownConnectedToastRef, heartbeatIntervalRef,
    \* closures and operations in flight
    eff, cbsClient, joinPc, attempts, queries, subs, playOps,
    \* the transport's track objects, the environment's configuration and the
    \* bounds that differ between specifications
    tracks, configOk, countCap, playCap, clientCap,
    \* the volume last set on each track object; the call the debounced volume
    \* setter holds back; the component has been unmounted
    trackVolume, debounced, unmounted,
    \* history: the mute setting the listener last asked for
    desiredMuted,
    \* history: reconnection attempts failed, and reconnection attempts started,
    \* since the last successful rejoin (or since the start); consecutive
    \* heartbeat polls that reported the broadcaster online while the session
    \* stayed connected without a track
    failed, started, stuckPolls,
    \* history: the listener's last explicit play/pause action was play; whether
    \* a connection loss has been signalled since the last track attach and the
    \* last explicit play/pause action ("none"), and if so whether isPlaying
    \* held at one of the signals ("playing") or at none ("idle")
    intent, outage,
    \* inputs and results of the backoff computation when it is checked on
    \* its own
    idxA, idxB, delayA, delayB

vars == <<AgoraRTC, isSDKLoading, sdkError, client,
          isConnected, isLive, isPlaying, isReconnecting, reconnectCount,
          wasPlayingBeforeDisconnect, connectionError, remoteAudioTrack,
          broadcasterOnline, listenerCount, isMuted, volume,
          isComponentMountedRef, hasShownConnectedToastRef, heartbeatIntervalRef,
          eff, cbsClient, joinPc, attempts, queries, subs, playOps,
          tracks, configOk, countCap, playCap, clientCap, trackVolume, debounced, unmounted,
          desiredMuted, failed, started, stuckPolls,
          intent, outage,
          idxA, idxB, delayA, delayB>>

---------------------------------------------------------------------------
(* Program constants *)

maxReconnectAttempts == 20
baseDelay == 500
capDelay == 3000
\* the growth factor 1.2 of line 168, as the fraction 12/10
growthNum == 12
growthDen == 10
defaultVolume == 75

(* Bounds of the model *)

\* reconnectCount is explored up to MaxCount, and in the specification of
\* the exhausted budget up to maxReconnectAttempts + CountSlack
MaxCount == 2
CountSlack == 1
\* reconnection attempts (armed timers and rejoins in progress) held at once
MaxPending == 2
\* presence queries awaiting their response at once
MaxQueries == 1
\* subscribe / auto-resume operations awaiting completion at once
MaxSubs == 1
\* consecutive online polls counted
MaxPolls == 2
\* play / pause operations and resume timers awaiting completion at once,
\* and where a click during the resume delay is examined PlaySlack more
MaxPlayOps == 1
PlaySlack == 1
\* track objects the transport hands out
MaxTracks == 2
\* transport clients created (one per run of the client effect), and where
\* a volume change followed by a mute toggle is examined ClientSlack more
MaxClients == 2
ClientSlack == 1
\* listener counts the presence query reports
MaxListeners == 1
\* backoff indices examined beyond maxReconnectAttempts
IndexSlack == 1

NoClient == 0
NoTrack == 0
NoDelay == <<0, 1>>
\* the volume of a track object on which setVolume has not been called
NoVolume == -1
Volumes == {defaultVolume, 25}

---------------------------------------------------------------------------
(* Backoff delay, line 168: Math.min(500 * Math.pow(1.2, reconnectCount), 3000).
   The value is kept as an exact reduced fraction <<p, q>> of milliseconds.
   Once the product exceeds capDelay the power is no longer multiplied out:
   Math.min returns capDelay from there on, and the integers stay small. *)

RECURSIVE GCD(_, _)
GCD(a, b) == IF b = 0 THEN a ELSE GCD(b, a % b)

Reduce(p, q) == <<p \div GCD(p, q), q \div GCD(p, q)>>

RECURSIVE Scaled(_)
Scaled(k) ==
    IF k = 0 THEN <<baseDelay, 1>>
    ELSE LET r == Scaled(k - 1)
         IN IF r[1] > capDelay * r[2] THEN r
            ELSE Reduce(r[1] * growthNum, r[2] * growthDen)

\* the delay with Math.min(..., 3000) left out
reconnectDelayNoCap(k) == Scaled(k)

reconnectDelay(k) ==
    LET r == Scaled(k)
    IN IF r[1] > capDelay * r[2] THEN <<capDelay, 1>> ELSE r

\* a <= b and a < b on fractions: by integer part, then by fractional part
RatLeq(a, b) ==
    LET ia == a[1] \div a[2]
        ib == b[1] \div b[2]
    IN IF ia # ib THEN ia < ib
       ELSE (a[1] % a[2]) * b[2] <= (b[1] % b[2]) * a[2]

RatLess(a, b) == RatLeq(a, b) /\ ~RatLeq(b, a)

---------------------------------------------------------------------------
(* The React state as one record, so that a handler is a function from the
   state it runs in to the state it leaves. *)

S == [AgoraRTC |-> AgoraRTC, isSDKLoading |-> isSDKLoading, sdkError |-> sdkError,
      client |-> client, isConnected |-> isConnected, isLive |-> isLive,
      isPlaying |-> isPlaying, isReconnecting |-> isReconnecting,
      reconnectCount |-> reconnectCount,
      wasPlayingBeforeDisconnect |-> wasPlayingBeforeDisconnect,
      connectionError |-> connectionError, remoteAudioTrack |-> remoteAudioTrack,
      broadcasterOnline |-> broadcasterOnline, listenerCount |-> listenerCount,
      isMuted |-> isMuted, volume |-> volume]

\* the dependency list of checkBroadcasterStatus, line 152
CbsDeps(s) == <<s.isConnected, s.isLive, s.remoteAudioTrack, s.isReconnecting,
                s.reconnectCount, s.connectionError>>

\* The values checkBroadcasterStatus (lines 111-152) reads from its render.
\* attemptReconnection is not in its dependency list, so the client it
\* reaches through attemptReconnection is the one of the render in which the
\* listed dependencies last changed (cl).
CbsClosure(s, cl) ==
    [isConnected |-> s.isConnected, isLive |-> s.isLive,
     hasTrack |-> s.remoteAudioTrack # NoTrack,
     isReconnecting |-> s.isReconnecting, reconnectCount |-> s.reconnectCount,
     hasError |-> s.connectionError # "none", client |-> cl]

\* The values the handlers registered by the client effect (lines 243-399)
\* read from the render in which the effect ran.
EffClosure(s, cl) ==
    [isConnected |-> s.isConnected, isReconnecting |-> s.isReconnecting,
     isPlaying |-> s.isPlaying, remoteAudioTrack |-> s.remoteAudioTrack,
     reconnectCount |-> s.reconnectCount, client |-> s.client,
     isMuted |-> s.isMuted, volume |-> s.volume,
     wasPlayingBeforeDisconnect |-> s.wasPlayingBeforeDisconnect,
     cbs |-> CbsClosure(s, cl)]

\* the state the stuck-state rule is about: connected, no audio, no track,
\* no reconnection under way
ConnectedIdle(s) ==
    s.isConnected /\ ~s.isLive /\ s.remoteAudioTrack = NoTrack /\ ~s.isReconnecting

\* A render commits the new state; useCallback keeps the previous
\* checkBroadcasterStatus unless one of its dependencies changed.  Once the
\* component is unmounted React drops every state update.
\* onlinePoll: the step handles a heartbeat poll that reported the
\* broadcaster online.
CommitPoll(r0, onlinePoll) ==
  LET r == IF unmounted THEN S ELSE r0 IN
    /\ AgoraRTC' = r.AgoraRTC
    /\ isSDKLoading' = r.isSDKLoading
    /\ sdkError' = r.sdkError
    /\ client' = r.client
    /\ isConnected' = r.isConnected
    /\ isLive' = r.isLive
    /\ isPlaying' = r.isPlaying
    /\ isReconnecting' = r.isReconnecting
    /\ reconnectCount' = r.reconnectCount
    /\ wasPlayingBeforeDisconnect' = r.wasPlayingBeforeDisconnect
    /\ connectionError' = r.connectionError
    /\ remoteAudioTrack' = r.remoteAudioTrack
    /\ broadcasterOnline' = r.broadcasterOnline
    /\ listenerCount' = r.listenerCount
    /\ isMuted' = r.isMuted
    /\ volume' = r.volume
    /\ cbsClient' = IF CbsDeps(r) # CbsDeps(S) THEN r.client ELSE cbsClient
    /\ stuckPolls' = IF ~ConnectedIdle(r) THEN 0
                     ELSE IF onlinePoll /\ stuckPolls < MaxPolls
                     THEN stuckPolls + 1 ELSE stuckPolls

Commit(r) == CommitPoll(r, FALSE)

RemoveAt(seq, i) == SubSeq(seq, 1, i - 1) \o SubSeq(seq, i + 1, Len(seq))

\* the environment and the backoff check's variables: no handler writes them
fixedVars == <<configOk, countCap, playCap, clientCap, idxA, idxB, delayA,
               delayB>>

histVars == <<failed, started>>

playHist == <<intent, outage>>

\* left alone by every handler that starts no playback operation and no
\* reconnection attempt
\* the track volumes, the debounced setter and the unmounted flag: written by
\* the volume and mute controls, the track attach and the unmount only
ctlVars == <<trackVolume, debounced, unmounted, desiredMuted>>

otherVars == <<playOps, histVars, playHist, ctlVars, fixedVars>>

reactVars == <<AgoraRTC, isSDKLoading, sdkError, client,
               isConnected, isLive, isPlaying, isReconnecting, reconnectCount,
               wasPlayingBeforeDisconnect, connectionError, remoteAudioTrack,
               broadcasterOnline, listenerCount, isMuted, volume, cbsClient,
               stuckPolls>>

---------------------------------------------------------------------------
(* Initial state: the first render, initializeSDK awaiting loadAgoraSDK. *)

\* the component as constructed, before the environment is chosen
Mounted ==
    /\ AgoraRTC = FALSE
    /\ isSDKLoading = TRUE
    /\ sdkError = FALSE
    /\ client = NoClient
    /\ isConnected = FALSE
    /\ isLive = FALSE
    /\ isPlaying = FALSE
    /\ isReconnecting = FALSE
    /\ reconnectCount = 0
    /\ wasPlayingBeforeDisconnect = FALSE
    /\ connectionError = "none"
    /\ remoteAudioTrack = NoTrack
    /\ broadcasterOnline = FALSE
    /\ listenerCount = 0
    /\ isMuted = FALSE
    /\ volume = defaultVolume
    /\ isComponentMountedRef = TRUE
    /\ hasShownConnectedToastRef = FALSE
    /\ heartbeatIntervalRef = <<>>
    /\ eff = <<>>
    /\ cbsClient = NoClient
    /\ joinPc = "idle"
    /\ attempts = <<>>
    /\ queries = <<>>
    /\ subs = <<>>
    /\ playOps = <<>>
    /\ tracks = [t \in 1..MaxTracks |-> "none"]
    /\ failed = 0
    /\ started = 0
    /\ stuckPolls = 0
    /\ intent = FALSE
    /\ outage = "none"
    /\ trackVolume = [t \in 1..MaxTracks |-> NoVolume]
    /\ debounced = <<>>
    /\ unmounted = FALSE
    /\ desiredMuted = FALSE

Init ==
    /\ Mounted
    /\ configOk \in BOOLEAN
    /\ countCap = MaxCount
    /\ playCap = MaxPlayOps
    /\ clientCap = MaxClients
    /\ idxA = 0
    /\ idxB = 0
    /\ delayA = NoDelay
    /\ delayB = NoDelay

---------------------------------------------------------------------------
(* attemptReconnection, lines 155-217.  cl and k are the client and the
   reconnectCount of the render whose attemptReconnection is called. *)

\* the guard of line 156 lets the call through
Proceeds(cl, k) ==
    cl # NoClient /\ isComponentMountedRef /\ k < maxReconnectAttempts

\* the call with setReconnectCount(prev => prev + 1) left out
AttemptStateNoCount(s, cl, k) ==
    IF Proceeds(cl, k)
    THEN [s EXCEPT !.isReconnecting = TRUE, !.connectionError = "none"]
    ELSE s

\* lines 161-163: the state the call leaves
AttemptState(s, cl, k) ==
    IF Proceeds(cl, k)
    THEN [s EXCEPT !.isReconnecting = TRUE,
                   !.reconnectCount = @ + 1,
                   !.connectionError = "none"]
    ELSE s

\* lines 168-170: the timer the call arms; reconnectTimeoutRef.current is
\* overwritten, so only the newest timer stays reachable through the ref.
\* after (history): the attempts that had failed since the last successful
\* rejoin when the timer was armed
ArmTimer(att, cl, k) ==
    IF Proceeds(cl, k)
    THEN Append([i \in DOMAIN att |-> [att[i] EXCEPT !.ref = FALSE]],
                [stage |-> "timer", k |-> k, client |-> cl, ref |-> TRUE,
                 delay |-> reconnectDelay(k), after |-> failed'])
    ELSE att

\* the attempts started, once a call of attemptReconnection made if go holds
\* has run
Started(go, cl, k) == IF go /\ Proceeds(cl, k) THEN started + 1 ELSE started

\* the model's bounds leave room for the call
Room(att, cl, k) ==
    Proceeds(cl, k) => (Len(att) < MaxPending /\ reconnectCount < countCap)

---------------------------------------------------------------------------
(* handleDisconnection, lines 220-240.  c holds the values of the render
   whose handleDisconnection is called: isPlaying, remoteAudioTrack,
   isReconnecting, reconnectCount and (through attemptReconnection) client. *)

DisconnectRetries(c) ==
    isComponentMountedRef /\ ~c.isReconnecting
        /\ c.reconnectCount < maxReconnectAttempts

\* handleDisconnection clearing the track handle of the current render
\* whatever its closure holds
DisconnectStateCurrent(s, c) ==
    IF ~isComponentMountedRef THEN s
    ELSE LET s1 == [s EXCEPT !.wasPlayingBeforeDisconnect = c.isPlaying,
                             !.isConnected = FALSE,
                             !.isLive = FALSE,
                             !.isPlaying = FALSE,
                             !.connectionError = "lost",
                             !.remoteAudioTrack = NoTrack]
         IN IF DisconnectRetries(c)
            THEN AttemptState(s1, c.client, c.reconnectCount)
            ELSE s1
DisconnectState(s, c) ==
    IF ~isComponentMountedRef THEN s
    ELSE LET s1 == [s EXCEPT !.wasPlayingBeforeDisconnect = c.isPlaying,
                             !.isConnected = FALSE,
                             !.isLive = FALSE,
                             !.isPlaying = FALSE,
                             !.connectionError = "lost",
                             !.remoteAudioTrack =
                                 IF c.remoteAudioTrack # NoTrack THEN NoTrack ELSE @]
         IN IF DisconnectRetries(c)
            THEN AttemptState(s1, c.client, c.reconnectCount)
            ELSE s1

DisconnectTimers(att, c) ==
    IF DisconnectRetries(c) THEN ArmTimer(att, c.client, c.reconnectCount) ELSE att

\* line 231: remoteAudioTrack.stop() on the track of the closure
DisconnectTracks(trk, c) ==
    IF isComponentMountedRef /\ c.remoteAudioTrack # NoTrack
    THEN [trk EXCEPT ![c.remoteAudioTrack] = "stopped"]
    ELSE trk

DisconnectRoom(c) ==
    DisconnectRetries(c) => Room(attempts, c.client, c.reconnectCount)

---------------------------------------------------------------------------
(* startHeartbeat / stopHeartbeat, lines 402-415.  The interval keeps
   calling the checkBroadcasterStatus it was armed with. *)

\* startHeartbeat without the test of line 403
startHeartbeatUnguarded(ref, cbs) == Append(ref, cbs)

startHeartbeat(ref, cbs) == IF ref # <<>> THEN ref ELSE <<cbs>>

stopHeartbeat(ref) == <<>>

---------------------------------------------------------------------------
(* joinChannel, lines 336-384 *)

\* joinChannel marking the session connected before the join has resolved
JoinStartStateEager(s, mounted) == [s EXCEPT !.isConnected = TRUE]

\* the synchronous part up to the first await: the configuration check
JoinStartState(s, mounted) ==
    IF ~configOk /\ mounted THEN [s EXCEPT !.connectionError = "join_failed"] ELSE s

JoinStartPc(mounted) ==
    IF configOk THEN "joining" ELSE IF mounted THEN "retryWait" ELSE "done"

(* The client effect body, lines 244-384: createClient, setClient, the
   handlers registered with the values of render r, joinChannel(). *)
RunClientEffect(r, mounted) ==
    /\ client < clientCap
    /\ eff' = <<EffClosure(r, cbsClient)>>
    /\ Commit(JoinStartState([r EXCEPT !.client = client + 1], mounted))
    /\ joinPc' = JoinStartPc(mounted)

\* initializeSDK, lines 79-100, after loadAgoraSDK resolved
LoadSDKOk ==
    /\ isSDKLoading /\ ~AgoraRTC /\ ~unmounted
    /\ RunClientEffect([S EXCEPT !.AgoraRTC = TRUE, !.isSDKLoading = FALSE],
                       isComponentMountedRef)
    /\ UNCHANGED <<isComponentMountedRef, hasShownConnectedToastRef,
                   heartbeatIntervalRef, attempts, queries, subs, tracks,
                   otherVars>>

\* initializeSDK, lines 91-98, after loadAgoraSDK rejected
LoadSDKFail ==
    /\ isSDKLoading /\ ~AgoraRTC /\ ~unmounted
    /\ Commit([S EXCEPT !.sdkError = TRUE, !.connectionError = "sdk_load",
                        !.isSDKLoading = FALSE])
    /\ UNCHANGED <<isComponentMountedRef, hasShownConnectedToastRef,
                   heartbeatIntervalRef, eff, joinPc, attempts, queries, subs,
                   tracks, otherVars>>

\* lines 353-366: setClientRole and join resolved
JoinOk ==
    /\ joinPc = "joining"
    /\ joinPc' = "done"
    /\ IF isComponentMountedRef /\ ~hasShownConnectedToastRef
       THEN /\ Commit([S EXCEPT !.isConnected = TRUE, !.connectionError = "none"])
            /\ hasShownConnectedToastRef' = TRUE
            /\ heartbeatIntervalRef' = startHeartbeat(heartbeatIntervalRef, eff[1].cbs)
       ELSE UNCHANGED <<reactVars, hasShownConnectedToastRef, heartbeatIntervalRef>>
    /\ UNCHANGED <<isComponentMountedRef, eff, attempts, queries, subs, tracks,
                   otherVars>>

\* the catch block of joinChannel without its retry timer
JoinFailNoRetry ==
    /\ joinPc = "joining"
    /\ joinPc' = "done"
    /\ IF isComponentMountedRef
       THEN Commit([S EXCEPT !.connectionError = "join_failed"])
       ELSE UNCHANGED reactVars
    /\ UNCHANGED <<isComponentMountedRef, hasShownConnectedToastRef,
                   heartbeatIntervalRef, eff, attempts, queries, subs, tracks,
                   otherVars>>

\* lines 367-380: setClientRole or join rejected
JoinFail ==
    /\ joinPc = "joining"
    /\ IF isComponentMountedRef
       THEN /\ Commit([S EXCEPT !.connectionError = "join_failed"])
            /\ joinPc' = "retryWait"
       ELSE /\ UNCHANGED reactVars
            /\ joinPc' = "done"
    /\ UNCHANGED <<isComponentMountedRef, hasShownConnectedToastRef,
                   heartbeatIntervalRef, eff, attempts, queries, subs, tracks,
                   otherVars>>

\* lines 374-379: the 2000 ms retry timer fires
JoinRetry ==
    /\ joinPc = "retryWait"
    /\ IF isComponentMountedRef /\ ~eff[1].isConnected
       THEN /\ Commit(JoinStartState(S, isComponentMountedRef))
            /\ joinPc' = JoinStartPc(isComponentMountedRef)
       ELSE /\ UNCHANGED reactVars
            /\ joinPc' = "done"
    /\ UNCHANGED <<isComponentMountedRef, hasShownConnectedToastRef,
                   heartbeatIntervalRef, eff, attempts, queries, subs, tracks,
                   otherVars>>

---------------------------------------------------------------------------
(* Transport events, lines 256-333.  The handlers exist once the client
   effect has run and are those of the render in which it ran (eff). *)

TransportActive == client # NoClient /\ configOk /\ ~unmounted

\* the outage history once a transport event has been handled; signal: the
\* event signals a connection loss (DISCONNECTED, FAILED, a network exception)
Lost(signal) ==
    IF ~signal THEN outage
    ELSE IF isPlaying \/ outage = "playing" THEN "playing" ELSE "idle"

\* handleDisconnection() called from a transport handler, s0 the state the
\* handler has set before the call
DoDisconnect(s0) ==
    /\ DisconnectRoom(eff[1])
    /\ Commit(DisconnectState(s0, eff[1]))
    /\ failed' = failed
    /\ started' = Started(DisconnectRetries(eff[1]), eff[1].client,
                          eff[1].reconnectCount)
    /\ attempts' = DisconnectTimers(attempts, eff[1])
    /\ tracks' = DisconnectTracks(tracks, eff[1])

\* lines 313-315
ConnConnected ==
    /\ TransportActive
    /\ Commit([S EXCEPT !.connectionError = "none", !.isConnected = TRUE])
    /\ UNCHANGED <<isComponentMountedRef, hasShownConnectedToastRef,
                   heartbeatIntervalRef, eff, joinPc, attempts, queries, subs,
                   tracks, otherVars>>

\* lines 316-317
ConnDisconnected ==
    /\ TransportActive
    /\ IF eff[1].isConnected /\ ~eff[1].isReconnecting
       THEN DoDisconnect(S)
       ELSE UNCHANGED <<reactVars, attempts, tracks, histVars>>
    /\ outage' = Lost(TRUE)
    /\ UNCHANGED <<isComponentMountedRef, hasShownConnectedToastRef,
                   heartbeatIntervalRef, eff, joinPc, queries, subs,
                   playOps, intent, ctlVars, fixedVars>>

\* lines 318-320
ConnFailed ==
    /\ TransportActive
    /\ DoDisconnect([S EXCEPT !.connectionError = "conn_failed"])
    /\ outage' = Lost(TRUE)
    /\ UNCHANGED <<isComponentMountedRef, hasShownConnectedToastRef,
                   heartbeatIntervalRef, eff, joinPc, queries, subs,
                   playOps, intent, ctlVars, fixedVars>>

\* lines 321-322
ConnReconnecting ==
    /\ TransportActive
    /\ Commit([S EXCEPT !.connectionError = "unstable"])
    /\ UNCHANGED <<isComponentMountedRef, hasShownConnectedToastRef,
                   heartbeatIntervalRef, eff, joinPc, attempts, queries, subs,
                   tracks, otherVars>>

\* lines 326-333; network: evt.code is NETWORK_ERROR or UNEXPECTED_ERROR
Exception(network) ==
    /\ TransportActive
    /\ LET s0 == [S EXCEPT !.connectionError = "stream_error"]
       IN IF network /\ eff[1].isConnected /\ ~eff[1].isReconnecting
          THEN DoDisconnect(s0)
          ELSE Commit(s0) /\ UNCHANGED <<attempts, tracks, histVars>>
    /\ outage' = Lost(network)
    /\ UNCHANGED <<isComponentMountedRef, hasShownConnectedToastRef,
                   heartbeatIntervalRef, eff, joinPc, queries, subs,
                   playOps, intent, ctlVars, fixedVars>>

\* lines 256-262: user-published for audio, up to await subscribe
UserPublished ==
    /\ TransportActive
    /\ Len(subs) < MaxSubs
    /\ subs' = IF isComponentMountedRef
               THEN Append(subs, [stage |-> "subscribe",
                                  isMuted |-> eff[1].isMuted,
                                  volume |-> eff[1].volume,
                                  wasPlaying |-> eff[1].wasPlayingBeforeDisconnect,
                                  track |-> NoTrack])
               ELSE subs
    /\ UNCHANGED <<reactVars, isComponentMountedRef, hasShownConnectedToastRef,
                   heartbeatIntervalRef, eff, joinPc, attempts, queries,
                   tracks, otherVars>>

FreshTrack == CHOOSE t \in 1..MaxTracks :
                 tracks[t] = "none" /\ \A u \in 1..(t - 1) : tracks[u] # "none"

\* line 266: the volume the handler sets on the track it attaches, from the
\* isMuted and volume of its closure
AttachVolume(sub) == IF sub.isMuted THEN 0 ELSE sub.volume

\* lines 263-289: subscribe resolved; with wasPlayingBeforeDisconnect set in
\* the closure, audioTrack.play() is called (playOk: it does not throw) and
\* awaited; lines 279-281 are the continuation of that await
SubscribeSettled(i, playOk) ==
    /\ i \in DOMAIN subs
    /\ LET sub == subs[i]
       IN IF sub.stage = "subscribe"
          THEN /\ \E t \in 1..MaxTracks : tracks[t] = "none"
               /\ Commit([S EXCEPT !.remoteAudioTrack = FreshTrack,
                                   !.isLive = TRUE,
                                   !.connectionError = "none"])
               /\ tracks' = [tracks EXCEPT ![FreshTrack] =
                                IF sub.wasPlaying /\ playOk
                                THEN "playing" ELSE "subscribed"]
               /\ trackVolume' = [trackVolume EXCEPT ![FreshTrack] =
                                     AttachVolume(sub)]
               /\ subs' = IF sub.wasPlaying /\ playOk
                          THEN [subs EXCEPT ![i].stage = "resume",
                                            ![i].track = FreshTrack]
                          ELSE RemoveAt(subs, i)
          ELSE /\ Commit([S EXCEPT !.isPlaying = TRUE,
                                   !.wasPlayingBeforeDisconnect = FALSE])
               /\ subs' = RemoveAt(subs, i)
               /\ UNCHANGED <<tracks, trackVolume>>
    /\ outage' = IF subs[i].stage = "subscribe" THEN "none" ELSE outage
    /\ UNCHANGED <<isComponentMountedRef, hasShownConnectedToastRef,
                   heartbeatIntervalRef, eff, joinPc, attempts, queries,
                   playOps, histVars, intent, debounced, unmounted,
                   desiredMuted, fixedVars>>

\* lines 290-294: subscribe rejected
SubscribeFailed(i) ==
    /\ i \in DOMAIN subs
    /\ subs[i].stage = "subscribe"
    /\ Commit([S EXCEPT !.connectionError = "audio_failed"])
    /\ subs' = RemoveAt(subs, i)
    /\ UNCHANGED <<isComponentMountedRef, hasShownConnectedToastRef,
                   heartbeatIntervalRef, eff, joinPc, attempts, queries,
                   tracks, otherVars>>

\* lines 298-308: user-unpublished for audio
UserUnpublished ==
    /\ TransportActive
    /\ IF isComponentMountedRef
       THEN Commit([S EXCEPT !.isLive = FALSE, !.isPlaying = FALSE])
       ELSE UNCHANGED reactVars
    /\ UNCHANGED <<isComponentMountedRef, hasShownConnectedToastRef,
                   heartbeatIntervalRef, eff, joinPc, attempts, queries, subs,
                   tracks, otherVars>>

---------------------------------------------------------------------------
(* Heartbeat, lines 402-407 and checkBroadcasterStatus, lines 111-152 *)

\* the interval fires: checkBroadcasterStatus runs up to its await
HeartbeatTick ==
    /\ heartbeatIntervalRef # <<>>
    /\ Len(queries) < MaxQueries
    /\ queries' = Append(queries, [cbs |-> heartbeatIntervalRef[1], tick |-> TRUE])
    /\ UNCHANGED <<reactVars, isComponentMountedRef, hasShownConnectedToastRef,
                   heartbeatIntervalRef, eff, joinPc, attempts, subs,
                   tracks, otherVars>>

\* line 133, on the values of the closure q
Stuck(q, hostOnline) ==
    hostOnline /\ q.isConnected /\ ~q.isLive /\ ~q.hasTrack

\* line 136
StuckRetries(q, hostOnline) ==
    Stuck(q, hostOnline) /\ ~q.isReconnecting
        /\ q.reconnectCount < maxReconnectAttempts

\* lines 117-145: the state a response with data leaves
StatusState(s, q, hostOnline, listeners) ==
    LET s1 == [s EXCEPT !.listenerCount = listeners,
                        !.broadcasterOnline = hostOnline]
        s2 == IF Stuck(q, hostOnline)
              THEN [s1 EXCEPT !.connectionError = "stuck"] ELSE s1
        s3 == IF StuckRetries(q, hostOnline)
              THEN AttemptState(s2, q.client, q.reconnectCount) ELSE s2
    IN IF hostOnline /\ q.hasError
       THEN [s3 EXCEPT !.connectionError = "none"] ELSE s3

StatusTimers(att, q, hostOnline) ==
    IF StuckRetries(q, hostOnline)
    THEN ArmTimer(att, q.client, q.reconnectCount) ELSE att

\* the presence query answered with data
StatusData(i, hostOnline, listeners) ==
    /\ i \in DOMAIN queries
    /\ StuckRetries(queries[i].cbs, hostOnline)
          => Room(attempts, queries[i].cbs.client, queries[i].cbs.reconnectCount)
    /\ CommitPoll(StatusState(S, queries[i].cbs, hostOnline, listeners),
                  hostOnline /\ queries[i].tick)
    /\ failed' = failed
    /\ started' = Started(StuckRetries(queries[i].cbs, hostOnline),
                          queries[i].cbs.client, queries[i].cbs.reconnectCount)
    /\ attempts' = StatusTimers(attempts, queries[i].cbs, hostOnline)
    /\ queries' = RemoveAt(queries, i)
    /\ UNCHANGED <<isComponentMountedRef, hasShownConnectedToastRef,
                   heartbeatIntervalRef, eff, joinPc, subs,
                   tracks, playOps, playHist, ctlVars, fixedVars>>

\* the catch block of checkBroadcasterStatus dropping the last snapshot
StatusErrorResets(i) ==
    /\ i \in DOMAIN queries
    /\ Commit([S EXCEPT !.connectionError = "status_check",
                        !.broadcasterOnline = FALSE, !.listenerCount = 0])
    /\ queries' = RemoveAt(queries, i)
    /\ UNCHANGED <<isComponentMountedRef, hasShownConnectedToastRef,
                   heartbeatIntervalRef, eff, joinPc, attempts, subs,
                   tracks, otherVars>>
\* lines 146-151: the presence query failed
StatusError(i) ==
    /\ i \in DOMAIN queries
    /\ IF ~queries[i].cbs.isReconnecting
       THEN Commit([S EXCEPT !.connectionError = "status_check"])
       ELSE UNCHANGED reactVars
    /\ queries' = RemoveAt(queries, i)
    /\ UNCHANGED <<isComponentMountedRef, hasShownConnectedToastRef,
                   heartbeatIntervalRef, eff, joinPc, attempts, subs,
                   tracks, otherVars>>

---------------------------------------------------------------------------
(* The reconnect timer callback, lines 170-216 *)

\* lines 197-214: the state the catch block leaves, k the reconnectCount
\* and cl the client of the attemptReconnection call that armed the timer
RejoinFailState(s, cl, k) ==
    LET s1 == [s EXCEPT !.connectionError = "reconnect_failed"]
    IN IF k < maxReconnectAttempts - 1
       THEN AttemptState(s1, cl, k)
       ELSE [s1 EXCEPT !.isReconnecting = FALSE,
                       !.connectionError = "max_attempts"]

\* the catch block with its attemptReconnection() arming no timer
RejoinFailTimersDropped(att, cl, k) == att

RejoinFailTimers(att, cl, k) ==
    IF k < maxReconnectAttempts - 1 THEN ArmTimer(att, cl, k) ELSE att

RejoinFailRoom(att, cl, k) ==
    k < maxReconnectAttempts - 1 => Room(att, cl, k)

\* lines 171-187: the timer fires; leave, setClientRole and join are awaited
TimerFire(i) ==
    /\ i \in DOMAIN attempts
    /\ attempts[i].stage = "timer"
    /\ IF ~isComponentMountedRef
       THEN attempts' = RemoveAt(attempts, i) /\ UNCHANGED <<reactVars, histVars>>
       ELSE IF ~configOk
       THEN /\ RejoinFailRoom(RemoveAt(attempts, i), attempts[i].client, attempts[i].k)
            /\ Commit(RejoinFailState(S, attempts[i].client, attempts[i].k))
            /\ failed' = failed + 1
            /\ started' = Started(attempts[i].k < maxReconnectAttempts - 1,
                                  attempts[i].client, attempts[i].k)
            /\ attempts' = RejoinFailTimers(RemoveAt(attempts, i),
                                            attempts[i].client, attempts[i].k)
       ELSE /\ attempts' = [attempts EXCEPT ![i].stage = "rejoin", ![i].ref = FALSE]
            /\ UNCHANGED <<reactVars, histVars>>
    /\ UNCHANGED <<isComponentMountedRef, hasShownConnectedToastRef,
                   heartbeatIntervalRef, eff, joinPc, queries, subs,
                   tracks, playOps, playHist, ctlVars, fixedVars>>

\* lines 189-195: the rejoin succeeded
RejoinOk(i) ==
    /\ i \in DOMAIN attempts
    /\ attempts[i].stage = "rejoin"
    /\ Commit([S EXCEPT !.isConnected = TRUE, !.isReconnecting = FALSE,
                        !.reconnectCount = 0, !.connectionError = "none"])
    /\ failed' = 0
    /\ started' = 0
    /\ attempts' = RemoveAt(attempts, i)
    /\ UNCHANGED <<isComponentMountedRef, hasShownConnectedToastRef,
                   heartbeatIntervalRef, eff, joinPc, queries, subs,
                   tracks, playOps, playHist, ctlVars, fixedVars>>

\* lines 197-215: leave, setClientRole or join rejected
RejoinFail(i) ==
    /\ i \in DOMAIN attempts
    /\ attempts[i].stage = "rejoin"
    /\ RejoinFailRoom(RemoveAt(attempts, i), attempts[i].client, attempts[i].k)
    /\ Commit(RejoinFailState(S, attempts[i].client, attempts[i].k))
    /\ failed' = failed + 1
    /\ started' = Started(attempts[i].k < maxReconnectAttempts - 1,
                          attempts[i].client, attempts[i].k)
    /\ attempts' = RejoinFailTimers(RemoveAt(attempts, i),
                                    attempts[i].client, attempts[i].k)
    /\ UNCHANGED <<isComponentMountedRef, hasShownConnectedToastRef,
                   heartbeatIntervalRef, eff, joinPc, queries, subs,
                   tracks, playOps, playHist, ctlVars, fixedVars>>

---------------------------------------------------------------------------
(* What the page renders, lines 567-603 and the controls' props *)

\* getStreamStatus, lines 595-603
getStreamStatus(s) ==
    IF s.isSDKLoading THEN "loading"
    ELSE IF s.connectionError # "none" THEN "error"
    ELSE IF s.isReconnecting THEN "reconnecting"
    ELSE IF ~s.isConnected THEN "disconnected"
    ELSE IF s.broadcasterOnline /\ ~s.isLive THEN "waiting"
    ELSE IF s.isLive THEN "live"
    ELSE "offline"

\* lines 567 and 740-742: the play/pause button is rendered
PlayButtonShown == ~unmounted /\ ~sdkError /\ getStreamStatus(S) = "live"

\* lines 567 and 821: the mute button is enabled
MuteButtonEnabled ==
    ~unmounted /\ ~sdkError /\ isConnected /\ getStreamStatus(S) # "reconnecting" /\ ~isSDKLoading

\* lines 567 and 840: the volume slider is enabled
SliderEnabled == MuteButtonEnabled /\ ~isMuted

---------------------------------------------------------------------------
(* handlePlayPauseStream, lines 456-481.  c holds the remoteAudioTrack and
   isPlaying of the render whose handlePlayPauseStream is called, and (as
   history) whether the listener's click made the call; ok: the track's
   stop() or play() does not throw. *)

PlayPauseState(s, c, ok) ==
    IF c.track = NoTrack THEN [s EXCEPT !.connectionError = "no_stream"]
    ELSE IF ~ok THEN [s EXCEPT !.connectionError = "playback_error"]
    ELSE s

PlayPauseTracks(trk, c, ok) ==
    IF c.track # NoTrack /\ ok
    THEN [trk EXCEPT ![c.track] = IF c.isPlaying THEN "stopped" ELSE "playing"]
    ELSE trk

PlayPauseOps(ops, c, ok) ==
    IF c.track # NoTrack /\ ok
    THEN Append(ops, [stage |-> "await", track |-> c.track,
                      isPlaying |-> c.isPlaying, user |-> c.user])
    ELSE ops

\* the handler of the current render is called and runs up to its await
PlayPauseCall(ok) ==
    /\ Len(playOps) < playCap
    /\ LET c == [track |-> remoteAudioTrack, isPlaying |-> isPlaying,
                 user |-> TRUE]
       IN /\ Commit(PlayPauseState(S, c, ok))
          /\ tracks' = PlayPauseTracks(tracks, c, ok)
          /\ playOps' = PlayPauseOps(playOps, c, ok)
    /\ UNCHANGED <<isComponentMountedRef, hasShownConnectedToastRef,
                   heartbeatIntervalRef, eff, joinPc, attempts, queries, subs,
                   histVars, playHist, ctlVars, fixedVars>>

\* line 749: the play/pause button, rendered while the stream is live, is
\* clicked
PlayPauseClick(ok) == PlayButtonShown /\ PlayPauseCall(ok)

\* the continuation of handlePlayPauseStream leaving the play-intent flag
\* alone
PlayPauseDoneNoIntent(i) ==
    /\ i \in DOMAIN playOps
    /\ playOps[i].stage = "await"
    /\ Commit(IF playOps[i].isPlaying
              THEN [S EXCEPT !.isPlaying = FALSE]
              ELSE [S EXCEPT !.isPlaying = TRUE, !.connectionError = "none"])
    /\ playOps' = RemoveAt(playOps, i)
    /\ intent' = IF playOps[i].user THEN ~playOps[i].isPlaying ELSE intent
    /\ outage' = IF playOps[i].user THEN "none" ELSE outage
    /\ UNCHANGED <<isComponentMountedRef, hasShownConnectedToastRef,
                   heartbeatIntervalRef, eff, joinPc, attempts, queries, subs,
                   tracks, histVars, ctlVars, fixedVars>>

\* lines 466-468 and 471-474: the continuation after the await
PlayPauseDone(i) ==
    /\ i \in DOMAIN playOps
    /\ playOps[i].stage = "await"
    /\ Commit(IF playOps[i].isPlaying
              THEN [S EXCEPT !.isPlaying = FALSE,
                             !.wasPlayingBeforeDisconnect = FALSE]
              ELSE [S EXCEPT !.isPlaying = TRUE,
                             !.wasPlayingBeforeDisconnect = TRUE,
                             !.connectionError = "none"])
    /\ playOps' = RemoveAt(playOps, i)
    /\ intent' = IF playOps[i].user THEN ~playOps[i].isPlaying ELSE intent
    /\ outage' = IF playOps[i].user THEN "none" ELSE outage
    /\ UNCHANGED <<isComponentMountedRef, hasShownConnectedToastRef,
                   heartbeatIntervalRef, eff, joinPc, attempts, queries, subs,
                   tracks, histVars, ctlVars, fixedVars>>

\* the resume timer calling the handlePlayPauseStream of the current render
ResumeTimerFireFresh(i, ok) ==
    /\ i \in DOMAIN playOps
    /\ playOps[i].stage = "timer"
    /\ LET c == [track |-> remoteAudioTrack, isPlaying |-> isPlaying,
                 user |-> FALSE]
       IN /\ Commit(PlayPauseState(S, c, ok))
          /\ tracks' = PlayPauseTracks(tracks, c, ok)
          /\ playOps' = PlayPauseOps(RemoveAt(playOps, i), c, ok)
    /\ UNCHANGED <<isComponentMountedRef, hasShownConnectedToastRef,
                   heartbeatIntervalRef, eff, joinPc, attempts, queries, subs,
                   histVars, playHist, ctlVars, fixedVars>>
\* lines 509-511: the 500 ms timer armed by handleVisibilityChange fires and
\* calls the handlePlayPauseStream of the render that armed it
ResumeTimerFire(i, ok) ==
    /\ i \in DOMAIN playOps
    /\ playOps[i].stage = "timer"
    /\ LET c == [track |-> playOps[i].track, isPlaying |-> playOps[i].isPlaying,
                 user |-> FALSE]
       IN /\ Commit(PlayPauseState(S, c, ok))
          /\ tracks' = PlayPauseTracks(tracks, c, ok)
          /\ playOps' = PlayPauseOps(RemoveAt(playOps, i), c, ok)
    /\ UNCHANGED <<isComponentMountedRef, hasShownConnectedToastRef,
                   heartbeatIntervalRef, eff, joinPc, attempts, queries, subs,
                   histVars, playHist, ctlVars, fixedVars>>

---------------------------------------------------------------------------
(* handleVisibilityChange, lines 504-521, the page becoming visible.  The
   listener is re-registered whenever a value it reads changes, so it runs
   on the current state. *)

VisibilityVisible ==
    /\ ~unmounted
    /\ LET resume == isLive /\ remoteAudioTrack # NoTrack
                        /\ wasPlayingBeforeDisconnect /\ ~isPlaying
       IN /\ resume => Len(playOps) < playCap
          /\ playOps' = IF resume
                        THEN Append(playOps, [stage |-> "timer",
                                              track |-> remoteAudioTrack,
                                              isPlaying |-> isPlaying])
                        ELSE playOps
    /\ IF isConnected
       THEN /\ heartbeatIntervalRef' =
                   startHeartbeat(heartbeatIntervalRef, CbsClosure(S, cbsClient))
            /\ UNCHANGED queries
       ELSE /\ Len(queries) < MaxQueries
            /\ queries' = Append(queries, [cbs |-> CbsClosure(S, cbsClient),
                                            tick |-> FALSE])
            /\ UNCHANGED heartbeatIntervalRef
    /\ UNCHANGED <<reactVars, isComponentMountedRef, hasShownConnectedToastRef,
                   eff, joinPc, attempts, subs, tracks, histVars, playHist,
                   ctlVars, fixedVars>>

---------------------------------------------------------------------------
(* The client effect re-runs when isMuted or volume changes (line 399): its
   cleanup, lines 386-398, then its body. *)

\* line 389-391: clearTimeout(reconnectTimeoutRef.current)
ClearTimer(att) == SelectSeq(att, LAMBDA a : ~(a.stage = "timer" /\ a.ref))

\* line 394-396: the track of the render in which the effect ran is stopped
CleanupTracks(trk, e) ==
    IF e.remoteAudioTrack # NoTrack
    THEN [trk EXCEPT ![e.remoteAudioTrack] = "stopped"] ELSE trk

RerunClientEffect(r) ==
    /\ isComponentMountedRef' = FALSE
    /\ attempts' = ClearTimer(attempts)
    /\ heartbeatIntervalRef' = stopHeartbeat(heartbeatIntervalRef)
    /\ tracks' = CleanupTracks(tracks, eff[1])
    /\ RunClientEffect(r, FALSE)

\* lines 436-447 and 452: the call the debounced setter holds back after
\* debouncedVolumeChange(v, trk, false), which replaces the call it held.  A
\* call whose track argument is null does nothing when it is flushed, so it is
\* kept as no call.
DebouncedCall(v, trk) ==
    IF trk = NoTrack THEN <<>> ELSE <<[volume |-> v, track |-> trk]>>

\* handleVolumeChange, lines 449-454, from the slider's onChange
VolumeChange(v) ==
    /\ SliderEnabled
    /\ v # volume
    /\ debounced' = DebouncedCall(v, remoteAudioTrack)
    /\ RerunClientEffect([S EXCEPT !.volume = v])
    /\ UNCHANGED <<hasShownConnectedToastRef, queries, subs, playOps, histVars,
                   playHist, trackVolume, unmounted, desiredMuted, fixedVars>>

\* lines 437-445: 100 ms after the last call the debounced setter is flushed;
\* its muted argument is the false of line 452
DebounceFire ==
    /\ debounced # <<>>
    /\ trackVolume' = [trackVolume EXCEPT ![debounced[1].track] =
                          debounced[1].volume]
    /\ debounced' = <<>>
    /\ UNCHANGED <<reactVars, isComponentMountedRef, hasShownConnectedToastRef,
                   heartbeatIntervalRef, eff, joinPc, attempts, queries, subs,
                   tracks, playOps, histVars, playHist, unmounted,
                   desiredMuted, fixedVars>>

\* lines 487-495: the volume toggleMute sets on the track
MuteVolume(s) == IF ~s.isMuted THEN 0 ELSE s.volume

\* toggleMute, lines 483-500, with a track
ToggleMute ==
    /\ MuteButtonEnabled
    /\ remoteAudioTrack # NoTrack
    /\ trackVolume' = [trackVolume EXCEPT ![remoteAudioTrack] = MuteVolume(S)]
    /\ desiredMuted' = ~isMuted
    /\ RerunClientEffect([S EXCEPT !.isMuted = ~isMuted])
    /\ UNCHANGED <<hasShownConnectedToastRef, queries, subs, playOps, histVars,
                   playHist, debounced, unmounted, fixedVars>>

\* toggleMute, line 484, without a track: the click changes nothing
MuteClickIgnored ==
    /\ MuteButtonEnabled
    /\ remoteAudioTrack = NoTrack
    /\ desiredMuted' = ~isMuted
    /\ UNCHANGED <<reactVars, isComponentMountedRef, hasShownConnectedToastRef,
                   heartbeatIntervalRef, eff, joinPc, attempts, queries, subs,
                   tracks, playOps, histVars, playHist, trackVolume, debounced,
                   unmounted, fixedVars>>

---------------------------------------------------------------------------
(* The component is unmounted: the cleanup of the client effect, lines
   386-398, if its body has run, and the cleanup of lines 559-564.  The
   timers of lines 374 and 509 are held in no ref and are not cleared. *)

Unmount ==
    /\ ~unmounted
    /\ unmounted' = TRUE
    /\ debounced' = <<>>
    /\ heartbeatIntervalRef' = stopHeartbeat(heartbeatIntervalRef)
    /\ IF eff # <<>>
       THEN /\ isComponentMountedRef' = FALSE
            /\ attempts' = ClearTimer(attempts)
            /\ tracks' = CleanupTracks(tracks, eff[1])
       ELSE UNCHANGED <<isComponentMountedRef, attempts, tracks>>
    /\ UNCHANGED <<reactVars, hasShownConnectedToastRef, eff, joinPc, queries,
                   subs, playOps, histVars, playHist, trackVolume,
                   desiredMuted, fixedVars>>

---------------------------------------------------------------------------

(* The connection engine: SDK load, join, transport connection events,
   heartbeat, reconnection attempts, page visibility and the volume slider
   (whose change re-runs the client effect). *)
Next ==
    \/ LoadSDKOk
    \/ LoadSDKFail
    \/ JoinOk
    \/ JoinFail
    \/ JoinRetry
    \/ ConnConnected
    \/ ConnDisconnected
    \/ ConnFailed
    \/ ConnReconnecting
    \/ \E network \in BOOLEAN : Exception(network)
    \/ HeartbeatTick
    \/ \E i \in 1..MaxQueries, hostOnline \in BOOLEAN, n \in 0..MaxListeners :
           StatusData(i, hostOnline, n)
    \/ \E i \in 1..MaxQueries : StatusError(i)
    \/ \E i \in 1..MaxPending : TimerFire(i)
    \/ \E i \in 1..MaxPending : RejoinOk(i)
    \/ \E i \in 1..MaxPending : RejoinFail(i)
    \/ VisibilityVisible
    \/ \E v \in Volumes : VolumeChange(v)

Spec == Init /\ [][Next]_vars

(* The media side: the broadcaster's publications, subscription, playback,
   the play/pause and mute controls (mute re-runs the client effect as the
   volume slider does), on a session that joins and sees connection events
   but starts no reconnection attempt. *)
NextMedia ==
    \/ LoadSDKOk
    \/ JoinOk
    \/ JoinFail
    \/ JoinRetry
    \/ ConnConnected
    \/ ConnDisconnected
    \/ ConnFailed
    \/ \E network \in BOOLEAN : Exception(network)
    \/ UserPublished
    \/ \E i \in 1..MaxSubs, playOk \in BOOLEAN : SubscribeSettled(i, playOk)
    \/ \E i \in 1..MaxSubs : SubscribeFailed(i)
    \/ UserUnpublished
    \/ \E ok \in BOOLEAN : PlayPauseClick(ok)
    \/ \E i \in 1..MaxPlayOps : PlayPauseDone(i)
    \/ \E i \in 1..MaxPlayOps, ok \in BOOLEAN : ResumeTimerFire(i, ok)
    \/ VisibilityVisible
    \/ ToggleMute

SpecMedia == Init /\ [][NextMedia]_vars

(* A run of reconnection attempts followed through the whole budget: the
   configuration is present and reconnectCount is explored up to
   maxReconnectAttempts + CountSlack. *)
InitBudget ==
    /\ Mounted
    /\ configOk = TRUE
    /\ countCap = maxReconnectAttempts + CountSlack
    /\ playCap = MaxPlayOps
    /\ clientCap = MaxClients
    /\ idxA = 0
    /\ idxB = 0
    /\ delayA = NoDelay
    /\ delayB = NoDelay

NextBudget ==
    \/ LoadSDKOk
    \/ JoinOk
    \/ ConnConnected
    \/ ConnDisconnected
    \/ VisibilityVisible
    \/ HeartbeatTick
    \/ \E i \in 1..MaxQueries, hostOnline \in BOOLEAN :
           StatusData(i, hostOnline, 0)
    \/ \E i \in 1..MaxPending : TimerFire(i)
    \/ \E i \in 1..MaxPending : RejoinOk(i)
    \/ \E i \in 1..MaxPending : RejoinFail(i)

SpecBudget == InitBudget /\ [][NextBudget]_vars

(* The first connection: the SDK loads, the join resolves, the broadcaster
   then publishes one audio track; the heartbeat runs, and the presence query
   fails or reports the broadcaster online once its track is attached. *)
PublishOnce ==
    /\ joinPc = "done"
    /\ subs = <<>>
    /\ \A t \in 1..MaxTracks : tracks[t] = "none"
    /\ UserPublished

Attached == \E t \in 1..MaxTracks : tracks[t] # "none"

NextFirstJoin ==
    \/ LoadSDKOk
    \/ ConnConnected
    \/ JoinOk
    \/ PublishOnce
    \/ \E i \in 1..MaxSubs, playOk \in BOOLEAN : SubscribeSettled(i, playOk)
    \/ HeartbeatTick
    \/ \E i \in 1..MaxQueries, n \in 0..MaxListeners : StatusData(i, Attached, n)
    \/ \E i \in 1..MaxQueries : StatusError(i)
    \/ VisibilityVisible

SpecFirstJoin == InitBudget /\ [][NextFirstJoin]_vars

(* handlePlayPauseStream called in whatever state the session is in, with
   or without a track: the session joins, the broadcaster publishes and
   unpublishes, the connection fails, and the handler is called and
   completes. *)
NextPlayback ==
    \/ LoadSDKOk
    \/ JoinOk
    \/ ConnFailed
    \/ UserPublished
    \/ \E i \in 1..MaxSubs, playOk \in BOOLEAN : SubscribeSettled(i, playOk)
    \/ UserUnpublished
    \/ \E ok \in BOOLEAN : AgoraRTC /\ PlayPauseCall(ok)
    \/ \E i \in 1..MaxPlayOps : PlayPauseDone(i)

SpecPlayback == InitBudget /\ [][NextPlayback]_vars
\* the configuration is present and reconnectCount is explored up to MaxCount
InitConfigured ==
    /\ Mounted
    /\ configOk = TRUE
    /\ countCap = MaxCount
    /\ playCap = MaxPlayOps
    /\ clientCap = MaxClients
    /\ idxA = 0
    /\ idxB = 0
    /\ delayA = NoDelay
    /\ delayB = NoDelay

(* Teardown: a session that joins (with retries), polls, reconnects and
   attaches a track is unmounted at any moment; the operations it had
   started complete afterwards. *)
NextTeardown ==
    \/ LoadSDKOk
    \/ JoinOk
    \/ JoinFail
    \/ JoinRetry
    \/ ConnConnected
    \/ VisibilityVisible
    \/ HeartbeatTick
    \/ \E i \in 1..MaxQueries, hostOnline \in BOOLEAN :
           StatusData(i, hostOnline, 0)
    \/ \E i \in 1..MaxPending : TimerFire(i)
    \/ \E i \in 1..MaxPending : RejoinOk(i)
    \/ UserPublished
    \/ \E i \in 1..MaxSubs : SubscribeSettled(i, TRUE)
    \/ Unmount

SpecTeardown == InitConfigured /\ [][NextTeardown]_vars
(* The volume and mute controls on a session that joins and attaches the
   broadcaster's tracks, with the heartbeat running. *)
InitControls ==
    /\ Mounted
    /\ configOk = TRUE
    /\ countCap = MaxCount
    /\ playCap = MaxPlayOps
    /\ clientCap = MaxClients + ClientSlack
    /\ idxA = 0
    /\ idxB = 0
    /\ delayA = NoDelay
    /\ delayB = NoDelay

NextControls ==
    \/ LoadSDKOk
    \/ ConnConnected
    \/ JoinOk
    \/ UserPublished
    \/ \E i \in 1..MaxSubs : SubscribeSettled(i, TRUE)
    \/ HeartbeatTick
    \/ \E i \in 1..MaxQueries : StatusData(i, FALSE, 0)
    \/ \E v \in Volumes : VolumeChange(v)
    \/ DebounceFire
    \/ ToggleMute
    \/ MuteClickIgnored

SpecControls == InitControls /\ [][NextControls]_vars
(* Resume on return to the foreground: the listener plays and pauses, the
   broadcaster unpublishes and publishes again, the page becomes visible,
   and the listener may click while the resume timer is pending. *)
InitResume ==
    /\ Mounted
    /\ configOk = TRUE
    /\ countCap = MaxCount
    /\ playCap = MaxPlayOps + PlaySlack
    /\ clientCap = MaxClients
    /\ idxA = 0
    /\ idxB = 0
    /\ delayA = NoDelay
    /\ delayB = NoDelay

NextResume ==
    \/ LoadSDKOk
    \/ JoinOk
    \/ UserPublished
    \/ \E i \in 1..MaxSubs : SubscribeSettled(i, TRUE)
    \/ UserUnpublished
    \/ \E ok \in BOOLEAN : PlayPauseClick(ok)
    \/ \E i \in 1..(MaxPlayOps + PlaySlack) : PlayPauseDone(i)
    \/ \E i \in 1..(MaxPlayOps + PlaySlack), ok \in BOOLEAN : ResumeTimerFire(i, ok)
    \/ VisibilityVisible

SpecResume == InitResume /\ [][NextResume]_vars
(* The silent broadcaster: every presence query reports the broadcaster
   online, no track is ever published and every rejoin succeeds.  The
   heartbeat interval keeps firing, every query is answered, every armed
   timer fires and every rejoin completes. *)
NextStuck ==
    \/ LoadSDKOk
    \/ ConnConnected
    \/ JoinOk
    \/ VisibilityVisible
    \/ HeartbeatTick
    \/ \E i \in 1..MaxQueries, n \in 0..MaxListeners : StatusData(i, TRUE, n)
    \/ \E i \in 1..MaxPending : TimerFire(i)
    \/ \E i \in 1..MaxPending : RejoinOk(i)

SpecStuck ==
    /\ InitConfigured
    /\ [][NextStuck]_vars
    /\ WF_vars(LoadSDKOk)
    /\ WF_vars(JoinOk)
    /\ WF_vars(HeartbeatTick)
    /\ WF_vars(\E i \in 1..MaxQueries, n \in 0..MaxListeners : StatusData(i, TRUE, n))
    /\ WF_vars(\E i \in 1..MaxPending : TimerFire(i))
    /\ WF_vars(\E i \in 1..MaxPending : RejoinOk(i))
(* The backoff computation of line 168 on its own: two attempt indices are
   drawn and their delays computed. *)
InitDelay ==
    /\ Mounted
    /\ configOk = TRUE
    /\ countCap = MaxCount
    /\ playCap = MaxPlayOps
    /\ clientCap = MaxClients
    /\ idxA \in 0..(maxReconnectAttempts + IndexSlack)
    /\ idxB \in 0..(maxReconnectAttempts + IndexSlack)
    /\ delayA = NoDelay
    /\ delayB = NoDelay

ComputeDelays ==
    /\ delayA = NoDelay
    /\ delayA' = reconnectDelay(idxA)
    /\ delayB' = reconnectDelay(idxB)
    /\ UNCHANGED <<reactVars, isComponentMountedRef, hasShownConnectedToastRef,
                   heartbeatIntervalRef, eff, joinPc, attempts, queries, subs,
                   playOps, tracks, configOk, countCap, playCap, clientCap,
                   histVars,
                   playHist,
                   ctlVars,
                   idxA, idxB>>

SpecDelay == InitDelay /\ [][ComputeDelays]_vars

---------------------------------------------------------------------------
(* Properties *)

\* the reconnection attempts whose timer is armed
NumTimers(att) == Cardinality({i \in DOMAIN att : att[i].stage = "timer"})

\* a step that arms a reconnect timer and leaves it in reconnectTimeoutRef
ArmsTimer ==
    /\ attempts' # attempts
    /\ attempts' # <<>>
    /\ attempts'[Len(attempts')].stage = "timer"
    /\ attempts'[Len(attempts')].ref

\* a step in which a rejoin succeeds, and one in which it fails
RejoinOkStep == \E i \in DOMAIN attempts : RejoinOk(i)
RejoinFailStep == \E i \in DOMAIN attempts : RejoinFail(i)

\* C1: whatever disconnect signals arrive (DISCONNECTED, FAILED, network
\* exceptions, stuck-state detections of the heartbeat), at most one
\* reconnection attempt - an armed timer or a rejoin in progress - is pending.
SingleReconnectInFlight == Len(attempts) <= 1

\* C2: once maxReconnectAttempts consecutive attempts have failed the
\* component is in the Failed state (not reconnecting, the terminal error
\* set), reconnectCount equals maxReconnectAttempts and no attempt is pending.
BudgetExhaustionFails ==
    failed = maxReconnectAttempts =>
        /\ ~isReconnecting
        /\ connectionError = "max_attempts"
        /\ reconnectCount = maxReconnectAttempts
        /\ attempts = <<>>

\* C3: when two consecutive heartbeat polls, one interval apart, have found
\* the broadcaster online while the session was connected with no audio and
\* no track, the component is reconnecting.
StuckStateRecovers == stuckPolls >= 2 => isReconnecting

\* C4: isReconnecting holds exactly while a reconnection attempt is in
\* flight (its timer armed or its rejoin in progress).
ReconnectingIffInFlight == isReconnecting <=> attempts # <<>>

CountEqualsFailures == [][RejoinFailStep => reconnectCount' = failed']_vars

\* C6 as amended: right after every failed reconnection attempt,
\* reconnectCount equals the number of attempts started since the last
\* successful rejoin.
CountEqualsStarted == [][RejoinFailStep => reconnectCount' = started']_vars

\* C6 witness: one attempt has failed and its retry has been scheduled.
OneFailureCounted == failed = 1 /\ reconnectCount = 2 /\ NumTimers(attempts) = 1

\* C7: the timer of an attempt armed after k failures since the last success
\* waits min(500 * 1.2^k, 3000) ms.
BackoffFollowsFailures ==
    \A i \in DOMAIN attempts :
        attempts[i].stage = "timer" =>
            attempts[i].delay = reconnectDelay(attempts[i].after)

\* C8: the computed delay never exceeds capDelay and is non-decreasing in
\* the attempt index.
DelayMonotoneAndCapped ==
    delayA # NoDelay =>
        /\ RatLeq(delayA, <<capDelay, 1>>)
        /\ RatLeq(delayB, <<capDelay, 1>>)
        /\ idxA <= idxB => RatLeq(delayA, delayB)

\* C8 witness: the delays of an index below the cap and of one at the cap
\* have been computed.
DelaysComputed ==
    /\ idxA = 3 /\ idxB = maxReconnectAttempts
    /\ delayA = <<864, 1>> /\ delayB = <<capDelay, 1>>

\* C9: once the budget is exhausted (reconnectCount has reached
\* maxReconnectAttempts) no step starts a further attempt or changes the
\* counter, and none makes the session connected, live or reconnecting.
ExhaustedIsTerminal ==
    [][reconnectCount >= maxReconnectAttempts =>
          /\ reconnectCount' = reconnectCount
          /\ ~ArmsTimer
          /\ isConnected' => isConnected
          /\ isLive' => isLive
          /\ isReconnecting' => isReconnecting]_vars

\* C10: at most one audio track is live (subscribed and not stopped).
SingleLiveTrack ==
    Cardinality({t \in 1..MaxTracks : tracks[t] \in {"subscribed", "playing"}}) <= 1

\* a step in which the subscribe of a publication resolves and its track is
\* attached
Attaches(i) ==
    /\ subs[i].stage = "subscribe"
    /\ SubscribeSettled(i, TRUE) \/ SubscribeSettled(i, FALSE)

\* a step in which the transport signals a connection loss
DisconnectSignal == ConnDisconnected \/ ConnFailed \/ Exception(TRUE)

\* C11: a track handle that is not stopped exists only while the stream is
\* live.
TrackOnlyWhileLive ==
    (remoteAudioTrack # NoTrack
        /\ tracks[remoteAudioTrack] \in {"subscribed", "playing"}) => isLive

\* C12: the step that handles a disconnect signal on a connected, live
\* session captures wasPlayingBeforeDisconnect from isPlaying, stops and
\* clears the track handle, leaves the session disconnected and, unless a
\* reconnection is under way or the budget is used up, starts a reconnection
\* attempt.
DisconnectHandled ==
    [][(DisconnectSignal /\ isConnected /\ isLive) =>
          /\ wasPlayingBeforeDisconnect' = isPlaying
          /\ remoteAudioTrack' = NoTrack
          /\ remoteAudioTrack # NoTrack => tracks'[remoteAudioTrack] = "stopped"
          /\ ~isConnected' /\ ~isLive'
          /\ (~isReconnecting /\ reconnectCount < maxReconnectAttempts) =>
                 (isReconnecting' /\ ArmsTimer)]_vars

\* C13: when the listener was playing at a connection loss, the next track
\* attach whose play call succeeds starts playback of the attached track.
AutoResumeAfterLoss ==
    [][\A i \in DOMAIN subs :
          (subs[i].stage = "subscribe" /\ SubscribeSettled(i, TRUE)
              /\ outage = "playing") => tracks'[FreshTrack] = "playing"]_vars

\* C14: when the listener's last explicit action before an outage was play,
\* wasPlayingBeforeDisconnect is still set when the next track is attached.
IntentSurvivesOutage ==
    [][\A i \in DOMAIN subs :
          (Attaches(i) /\ intent /\ outage # "none") =>
              wasPlayingBeforeDisconnect]_vars

\* C15: a track attach made while wasPlayingBeforeDisconnect is set clears
\* the flag, at the latest when the awaited play call has settled.
FlagClearedOnAttach ==
    [][\A i \in DOMAIN subs :
          /\ (Attaches(i) /\ wasPlayingBeforeDisconnect) =>
                 \/ ~wasPlayingBeforeDisconnect'
                 \/ \E j \in DOMAIN subs' : subs'[j].stage = "resume"
          /\ (subs[i].stage = "resume" /\ SubscribeSettled(i, TRUE)) =>
                 ~wasPlayingBeforeDisconnect']_vars

\* the connection state the page shows, the error banner aside
Phase(s) == getStreamStatus([s EXCEPT !.connectionError = "none"])

PhaseRank(s) ==
    CASE Phase(s) = "loading" -> 0
      [] Phase(s) = "disconnected" -> 1
      [] Phase(s) \in {"offline", "waiting"} -> 2
      [] Phase(s) = "live" -> 3
      [] OTHER -> 9

NumAttached == Cardinality({t \in 1..MaxTracks : tracks[t] # "none"})

JoinRetriedForever ==
    [][/\ (JoinFail /\ isComponentMountedRef) => joinPc' = "retryWait"
       /\ (JoinRetry /\ isComponentMountedRef) => joinPc' \in {"joining", "retryWait"}
       /\ (JoinFail \/ JoinRetry) =>
              /\ reconnectCount' = reconnectCount
              /\ isReconnecting' = isReconnecting
              /\ connectionError' # "max_attempts"]_vars

\* C17 witness: a join has been rejected and the retry timer has started the
\* next join.
JoinRetried ==
    /\ joinPc = "joining" /\ connectionError = "join_failed"
    /\ isComponentMountedRef /\ ~isConnected

\* C18: with the app identifier or the channel name missing the join is not
\* retried: no retry timer is armed.
ConfigErrorNotRetried == ~configOk => joinPc # "retryWait"

\* C19: while an attempt is pending, a call of attemptReconnection from a
\* disconnect signal or a heartbeat poll changes nothing: reconnectCount
\* keeps its value and no timer is armed.
PendingAttemptGuards ==
    [][(attempts # <<>> /\ ~RejoinOkStep /\ ~RejoinFailStep) =>
          (reconnectCount' = reconnectCount /\ ~ArmsTimer)]_vars

\* C20: at most one heartbeat interval is armed; a start while one is armed
\* leaves that one in place.
HeartbeatIdempotent ==
    [][/\ Len(heartbeatIntervalRef') <= 1
       /\ (heartbeatIntervalRef # <<>> /\ heartbeatIntervalRef' # <<>>) =>
              heartbeatIntervalRef' = heartbeatIntervalRef]_vars

\* C20 witness: the heartbeat was started, stopped by the effect cleanup
\* and started again.
HeartbeatRestarted == heartbeatIntervalRef # <<>> /\ ~isComponentMountedRef

\* a step in which a presence query fails
StatusErrorStep == \E i \in DOMAIN queries : StatusError(i)

\* C21: a failed presence query leaves broadcasterOnline and listenerCount
\* as they were, leaves the heartbeat interval armed, starts no reconnection
\* attempt and changes none of the connection flags nor the connection state
\* shown.
FailedPollHarmless ==
    [][StatusErrorStep =>
          /\ broadcasterOnline' = broadcasterOnline
          /\ listenerCount' = listenerCount
          /\ heartbeatIntervalRef' = heartbeatIntervalRef
          /\ attempts' = attempts
          /\ reconnectCount' = reconnectCount
          /\ isConnected' = isConnected
          /\ isLive' = isLive
          /\ isReconnecting' = isReconnecting
          /\ Phase(S)' = Phase(S)]_vars

\* C21 witness: a poll has failed after one that reported the broadcaster
\* online with a listener, and the heartbeat is still armed.
FailedPollSeen ==
    /\ connectionError = "status_check"
    /\ broadcasterOnline /\ listenerCount = 1
    /\ heartbeatIntervalRef # <<>>

\* a step in which handlePlayPauseStream is called, and one in which its
\* awaited stop() or play() has resolved
PlayPauseCallStep == PlayPauseCall(TRUE) \/ PlayPauseCall(FALSE)
PlayPauseDoneStep(i) == playOps[i].stage = "await" /\ PlayPauseDone(i)

\* C22: handlePlayPauseStream called with no track handle reports that no
\* stream is available and leaves isPlaying, wasPlayingBeforeDisconnect and
\* the connection flags as they were, starting nothing; called with a
\* handle, once its stop() or play() has resolved it leaves isPlaying the
\* opposite of what it was at the call and wasPlayingBeforeDisconnect equal
\* to the new isPlaying, again with the connection flags as they were.
ToggleContract ==
    [][/\ (PlayPauseCallStep /\ remoteAudioTrack = NoTrack) =>
              /\ connectionError' = "no_stream"
              /\ playOps' = playOps /\ tracks' = tracks
       /\ PlayPauseCallStep =>
              /\ isPlaying' = isPlaying
              /\ wasPlayingBeforeDisconnect' = wasPlayingBeforeDisconnect
       /\ \A i \in DOMAIN playOps : PlayPauseDoneStep(i) =>
              /\ isPlaying' = ~playOps[i].isPlaying
              /\ wasPlayingBeforeDisconnect' = isPlaying'
       /\ (PlayPauseCallStep \/ \E i \in DOMAIN playOps : PlayPauseDoneStep(i)) =>
              /\ isConnected' = isConnected
              /\ isLive' = isLive
              /\ isReconnecting' = isReconnecting
              /\ reconnectCount' = reconnectCount
              /\ remoteAudioTrack' = remoteAudioTrack
              /\ attempts' = attempts]_vars

\* C22 witness: the handler was called without a track on a joined session
\* and reported that no stream is available.
NoTrackReported ==
    /\ connectionError = "no_stream" /\ remoteAudioTrack = NoTrack
    /\ isConnected /\ ~isPlaying

\* C23: a volume or mute request made while no track handle exists is
\* applied to the next track attached: that track gets volume 0 when mute
\* was requested and the requested volume otherwise.
DesiredAppliedOnAttach ==
    [][\A i \in DOMAIN subs :
          (Attaches(i) /\ remoteAudioTrack = NoTrack) =>
              trackVolume'[FreshTrack] = IF desiredMuted THEN 0 ELSE volume]_vars

\* C24: the unmount leaves no heartbeat interval and no reconnect timer
\* armed, and leaves the current track handle stopped.
TeardownReleases ==
    [][Unmount =>
          /\ heartbeatIntervalRef' = <<>>
          /\ NumTimers(attempts') = 0
          /\ remoteAudioTrack # NoTrack =>
                 tracks'[remoteAudioTrack] \notin {"subscribed", "playing"}]_vars

\* the session's state: the React state, the track objects and their
\* volumes, the heartbeat interval
SessionState == <<S, tracks, trackVolume, heartbeatIntervalRef>>

\* C25: once the component is unmounted, no continuation of an operation
\* started before (reconnect timer, rejoin, presence query, subscribe, join
\* retry timer) changes the session's state, and none arms a timer.
NoCallbackAfterTeardown ==
    [][unmounted => (SessionState' = SessionState /\ ~ArmsTimer)]_vars

\* C26: a heartbeat poll answered while a reconnection attempt is in flight
\* stores the reported broadcasterOnline and listenerCount, starts no
\* attempt and leaves reconnectCount as it was.
PollDuringAttempt ==
    [][\A i \in DOMAIN queries, h \in BOOLEAN, n \in 0..MaxListeners :
          (queries[i].tick /\ attempts # <<>> /\ StatusData(i, h, n)) =>
              /\ broadcasterOnline' = h
              /\ listenerCount' = n
              /\ reconnectCount' = reconnectCount
              /\ ~ArmsTimer]_vars

\* C27: once the reconnect budget is used up (reconnectCount has reached
\* maxReconnectAttempts) no heartbeat interval is armed and no presence
\* query is issued.
ExhaustedStopsHeartbeat ==
    [][/\ reconnectCount' >= maxReconnectAttempts => heartbeatIntervalRef' = <<>>
       /\ reconnectCount >= maxReconnectAttempts => Len(queries') <= Len(queries)]_vars

\* C28: the resume timer armed on a return to the foreground, when its
\* play() succeeds, starts playback of the track it was armed for and leaves
\* isPlaying true once the call has resolved; when the stream has started
\* playing during the delay it stops no track and leaves isPlaying true.
ResumeOnForeground ==
    [][\A i \in DOMAIN playOps :
          /\ (playOps[i].stage = "timer" /\ ResumeTimerFire(i, TRUE)) =>
                 /\ tracks'[playOps[i].track] = "playing"
                 /\ \A t \in 1..MaxTracks :
                        tracks'[t] = "stopped" => tracks[t] = "stopped"
                 /\ isPlaying => isPlaying'
                 /\ \E j \in DOMAIN playOps' :
                        /\ playOps'[j].stage = "await" /\ ~playOps'[j].user
                        /\ ~playOps'[j].isPlaying
          /\ (playOps[i].stage = "await" /\ ~playOps[i].user
                 /\ PlayPauseDone(i)) => isPlaying']_vars

\* C28 witness: the listener started playback while the resume timer was
\* pending, and the timer's play() is awaited with the stream still playing.
ResumedWhilePlaying ==
    /\ isPlaying /\ isLive
    /\ \E i \in DOMAIN playOps :
           /\ playOps[i].stage = "await" /\ ~playOps[i].user
           /\ tracks[playOps[i].track] = "playing"

\* C29: once the transport client exists, every return to the foreground
\* issues a presence query at once; and when the session was disconnected at
\* the return, no attempt is pending and the budget is not used up, the
\* answer to that query starts a reconnection attempt.
ForegroundChecksAndRecovers ==
    [][/\ (VisibilityVisible /\ client # NoClient) =>
              Len(queries') = Len(queries) + 1
       /\ \A i \in DOMAIN queries, h \in BOOLEAN, n \in 0..MaxListeners :
              (/\ ~queries[i].tick /\ ~queries[i].cbs.isConnected
               /\ client # NoClient /\ ~isConnected
               /\ StatusData(i, h, n)
               /\ attempts = <<>> /\ reconnectCount < maxReconnectAttempts) =>
                  ArmsTimer]_vars

\* C30: a volume change or a mute toggle leaves isConnected, isLive,
\* isReconnecting, reconnectCount and the track handle as they were, keeps
\* the transport client, its track and the heartbeat, and leaves the
\* handlers of later transport events enabled.
ControlsLeaveConnection ==
    [][((\E v \in Volumes : VolumeChange(v)) \/ ToggleMute) =>
          /\ isConnected' = isConnected
          /\ isLive' = isLive
          /\ isReconnecting' = isReconnecting
          /\ reconnectCount' = reconnectCount
          /\ remoteAudioTrack' = remoteAudioTrack
          /\ client' = client
          /\ tracks' = tracks
          /\ heartbeatIntervalRef' = heartbeatIntervalRef
          /\ isComponentMountedRef' = isComponentMountedRef]_vars

\* C31: reconnectCount stays between 0 and maxReconnectAttempts.
CountWithinBudget ==
    0 <= reconnectCount /\ reconnectCount <= maxReconnectAttempts

\* C32: whenever isPlaying is set a track handle exists, also when a
\* disconnect has been handled while a play call was awaited.
PlayingHasTrack == isPlaying => remoteAudioTrack # NoTrack

\* C32 witness: a play call completed after a disconnect was handled:
\* playing on a session that is neither connected nor live, the handle kept.
PlayingAfterDisconnect ==
    /\ isPlaying /\ ~isConnected /\ ~isLive
    /\ connectionError = "none"
    /\ remoteAudioTrack # NoTrack /\ tracks[remoteAudioTrack] = "playing"

\* C33: once the join has succeeded, whenever isLive is set isConnected is
\* set too, also when a subscribe started before a disconnect resolves
\* after it.
LiveImpliesConnected ==
    (isLive /\ hasShownConnectedToastRef) => isConnected

\* C34: while isMuted is set the volume of the current track is 0.
MutedMeansSilent ==
    (isMuted /\ remoteAudioTrack # NoTrack) => trackVolume[remoteAudioTrack] = 0

\* C35: with the broadcaster reported online for ever, no track published
\* and every rejoin succeeding, from some moment on no reconnection attempt
\* is started.
StuckRecoveryBounded == <>[][~ArmsTimer]_vars

====
